---- MODULE Spec2Model ----
(***************************************************************************)
(* The payment-gated download workflow of the UpLink backend:              *)
(*   createPaymentOrder, paymentWebhook (handlePaymentSuccess,             *)
(*   handlePaymentFailure, handlePaymentDropped, processCreatorPayout),    *)
(*   getDownloadUrl and updateFile, over the Payment and File collections. *)
(*                                                                         *)
(* Every handler is an async function: it runs atomically between two      *)
(* awaits, and other requests run while it waits.  A handler is therefore  *)
(* cut at its database writes and at the gateway call; the reads that      *)
(* precede a write are taken with it when nothing can change what they     *)
(* read.  A Mongoose document is a local copy: save() sends only the       *)
(* paths whose assigned value differs from the copy.                       *)
(*                                                                         *)
(* Money is counted in thousandths of a rupee (Milli), so that a price     *)
(* with three decimals, which the price validation accepts, is a number    *)
(* of the model.  MongoDB and the object store are taken as available,     *)
(* but for the two saves whose rejection the code catches: the second save *)
(* of createPaymentOrder and the save of the completed payout.             *)
(* A request that needs authentication is made by an account that exists   *)
(* (authenticate answers 401 otherwise and the handler does not run).      *)
(***************************************************************************)
EXTENDS Integers, Sequences, FiniteSets, TLC

\* ---------------------------------------------------------------- bounds
MaxPayments == 2
MaxHandlers == 2
MaxDeliveries == 2
MaxRupees == 12

\* ------------------------------------------------------------- constants
\* PLATFORM_COMMISSION_RATE, in percent (parseFloat('0.10'))
DefaultRatePct == 10
\* one rupee in the model's unit: ten units to the paisa, 100 paise to the rupee
Milli == 10 * 100

Creator == "alice"
Clients == {"bob"}
Users == {Creator} \cup Clients

\* file.price values: free, Rs 500
Prices == {0, 500 * Milli}

\* amounts the split is computed for: whole rupees up to MaxRupees with the paise and
\* fractions of a paisa of SubRupee, and Rs 500
SubRupee == {0, 5, 10, 50, 355, 995}
SplitAmounts == {r * Milli + m : r \in 0..MaxRupees, m \in SubRupee} \cup {500 * Milli}
\* commission rates, in percent: PLATFORM_COMMISSION_RATE is parseFloat of an environment
\* variable, used as parsed; 150 is a rate of 1.5
SplitRates == {0, DefaultRatePct, 33, 100, 150}

PIds == 1..MaxPayments
Handlers == 1..MaxHandlers

\* payment.cashfreeOrderId as generated by the pre-save hook (order_id sent to the gateway)
OrderToken(p) == <<"uplink", p>>
\* cf_order_id the gateway assigns to the order created for payment p
CfToken(p) == <<"cf", p>>
\* a token no order carries
UnknownToken == <<"unknown", 0>>
\* no token: a response to something else than the arrival of an event
NoToken == <<"none", 0>>
\* data.order.cf_order_id is undefined: the event carries no order token
AbsentToken == <<"absent", 0>>
\* data.order.cf_order_id of an event: an id of the gateway's, one it does not know, or
\* none
Tokens == {UnknownToken, AbsentToken} \cup {CfToken(p) : p \in PIds}
\* who sends a request to POST /payments/webhook: the gateway, or anyone else who knows
\* the URL (the route has no authentication and the handler reads no signature)
Origins == {"gateway", "other"}

EventTypes == {"PAYMENT_SUCCESS_WEBHOOK", "PAYMENT_FAILED_WEBHOOK",
               "PAYMENT_USER_DROPPED_WEBHOOK", "OTHER"}
\* data.payment.payment_method: absent, an enum value in upper case, a string outside
\* the enum, a non-string value
PayloadMethods == {"absent", "CARD", "crypto", "object"}

Terminal == {"completed", "failed", "refunded"}
PayoutTerminal == {"completed", "failed", "not_required"}

VARIABLES
    users,        \* the User collection: the accounts that exist
    configured,   \* CASHFREE_CONFIGURED
    creatorHasUpi,\* creator.phone || creator.upiId
    file,         \* the File document: isPublic, price, status
    payments,     \* the Payment collection, by _id
    nextId,       \* _id of the next Payment document
    cpc,          \* position of the createPaymentOrder call that created payment p
    hs,           \* webhook deliveries in flight: position and local document
    delivered,    \* deliveries that reached a payment so far (up to MaxDeliveries)
    payoutRuns,   \* per payment, how often processCreatorPayout was called
    split,        \* the commission split last computed, with its inputs
    resp          \* what the last step answered and logged

vars == <<users, configured, creatorHasUpi, file, payments, nextId, cpc, hs, delivered, payoutRuns, split, resp>>

\* data.payment.cf_payment_id of the events for one order: the gateway's payment id
NoPaymentId == ""
GatewayPaymentId == "cfpay"

NoPayment ==
    [present |-> FALSE, clientId |-> "", amount |-> 0, status |-> "pending",
     cashfreeOrderId |-> UnknownToken, platformCommission |-> 0, creatorShare |-> 0,
     payoutStatus |-> "pending", cashfreePaymentId |-> NoPaymentId, paidAt |-> FALSE]

\* the fields of the local Payment document that a webhook handler compares on save
\* (cashfreePaymentId and paidAt are assigned once per handler, and stored values of
\* them are never taken back: their writes need no copy)
NoDoc == [status |-> "", payoutStatus |-> ""]

IdleHandler == [pc |-> "idle", type |-> "", pid |-> 0, doc |-> NoDoc]

NoSplit == [amount |-> 0, ratePct |-> 0, platformCommission |-> 0, creatorShare |-> 0, done |-> FALSE]

NoResp ==
    [op |-> "none", code |-> 0, user |-> "", pid |-> 0, note |-> "", price |-> 0,
     token |-> NoToken, error |-> "", event |-> "", origin |-> ""]

\* ------------------------------------------------------ commission split
\* Math.round(num / den): the nearest integer, halves towards +Infinity (den > 0)
MathRound(num, den) == (2 * num + den) \div (2 * den)

\* Math.round(amount * PLATFORM_COMMISSION_RATE * 100) / 100, amount in Milli
PlatformCommission(amount, ratePct) == MathRound(amount * ratePct, 100 * 10) * 10

\* Math.round((amount - platformCommission) * 100) / 100
CreatorShare(amount, platformCommission) == MathRound(amount - platformCommission, 10) * 10

\* ------------------------------------------------------------ collection
\* variant of FindByOrderId: a lookup that falls back to the oldest stored payment
FindByOrderIdOrOldest(pays, token) ==
    IF \E p \in PIds : pays[p].present /\ pays[p].cashfreeOrderId = token
    THEN CHOOSE p \in PIds : pays[p].present /\ pays[p].cashfreeOrderId = token
    ELSE IF \E p \in PIds : pays[p].present
    THEN CHOOSE p \in PIds : pays[p].present /\ \A q \in PIds : pays[q].present => p <= q
    ELSE 0

\* Payment.findOne({ cashfreeOrderId }): the _id of the match, 0 when there is none
FindByOrderId(pays, token) ==
    IF \E p \in PIds : pays[p].present /\ pays[p].cashfreeOrderId = token
    THEN CHOOSE p \in PIds : pays[p].present /\ pays[p].cashfreeOrderId = token
    ELSE 0

\* variant of HasCompletedPayment: the query without its status filter
HasAnyPayment(pays, user) ==
    \E p \in PIds : pays[p].present /\ pays[p].clientId = user

\* variant of HasCompletedPayment: the query also asks for a completed payout
HasPaidOutPayment(pays, user) ==
    \E p \in PIds : /\ pays[p].present /\ pays[p].clientId = user
                     /\ pays[p].status = "completed" /\ pays[p].payoutStatus = "completed"

\* the payment of user created last (createdAt), 0 when there is none
MostRecentPayment(pays, user) ==
    IF \E p \in PIds : pays[p].present /\ pays[p].clientId = user
    THEN CHOOSE p \in PIds :
            /\ pays[p].present /\ pays[p].clientId = user
            /\ \A q \in PIds : pays[q].present /\ pays[q].clientId = user => q <= p
    ELSE 0

\* Payment.findOne({ fileId, clientId, status: 'completed' }) finds a document
HasCompletedPayment(pays, user) ==
    \E p \in PIds : pays[p].present /\ pays[p].clientId = user /\ pays[p].status = "completed"

\* the orders the gateway holds: those createCashfreeOrder returned for
gwOrders == {p \in PIds : cpc[p] \in {"gwok", "done", "savefailed"}}

Init ==
    /\ users = Users
    /\ configured \in BOOLEAN
    /\ creatorHasUpi \in BOOLEAN
    /\ file = [isPublic |-> FALSE, price |-> 0, status |-> "ready"]
    /\ payments = [p \in PIds |-> NoPayment]
    /\ nextId = 1
    /\ cpc = [p \in PIds |-> "new"]
    /\ hs = [h \in Handlers |-> IdleHandler]
    /\ delivered = 0
    /\ payoutRuns = [p \in PIds |-> 0]
    /\ split = NoSplit
    /\ resp = NoResp

\* --------------------------------------------------------------- updateFile
\* by the file's creator (anyone else is answered 403 and changes nothing)
updateFile(price, isPublic) ==
    /\ Creator \in users
    /\ file' = [file EXCEPT !.price = price, !.isPublic = isPublic]
    /\ resp' = [NoResp EXCEPT !.op = "updateFile", !.code = 200]
    /\ UNCHANGED <<users, payoutRuns, split, configured, creatorHasUpi, payments, nextId, cpc, hs, delivered>>

\* ------------------------------------------------------ createPaymentOrder
\* the Payment document built and saved at lines 77-91; the pre-save hook sets
\* cashfreeOrderId on the new document
NewPayment(pid, user, amount) ==
    [present |-> TRUE, clientId |-> user, amount |-> amount, status |-> "pending",
     cashfreeOrderId |-> OrderToken(pid),
     platformCommission |-> PlatformCommission(amount, DefaultRatePct),
     creatorShare |-> CreatorShare(amount, PlatformCommission(amount, DefaultRatePct)),
     payoutStatus |-> "pending", cashfreePaymentId |-> NoPaymentId, paidAt |-> FALSE]

\* variant of CreateOrderRejection: no check of the requester against the creator
CreateOrderRejectionNoSelfCheck(user) ==
    IF ~configured THEN 503
    ELSE IF ~file.isPublic \/ file.price <= 0 THEN 400
    ELSE 0

\* what the request is answered before any document is created: 0 when it goes on
CreateOrderRejection(user) ==
    IF ~configured THEN 503
    ELSE IF ~file.isPublic \/ file.price <= 0 THEN 400
    ELSE IF user = Creator THEN 400
    ELSE 0

\* the request up to the first payment.save()
createPaymentOrder(user) ==
    /\ user \in users
    /\ IF CreateOrderRejection(user) /= 0
       THEN /\ resp' = [NoResp EXCEPT !.op = "createOrder", !.user = user,
                                         !.code = CreateOrderRejection(user)]
            /\ UNCHANGED <<payments, nextId, cpc>>
       ELSE /\ nextId \in PIds
            /\ payments' = [payments EXCEPT ![nextId] = NewPayment(nextId, user, file.price)]
            /\ cpc' = [cpc EXCEPT ![nextId] = "saved"]
            /\ nextId' = nextId + 1
            /\ resp' = NoResp
    /\ UNCHANGED <<users, payoutRuns, split, configured, creatorHasUpi, file, hs, delivered>>

\* createCashfreeOrder returns: the gateway holds the order
gatewayAccepts(pid) ==
    /\ cpc[pid] = "saved"
    /\ cpc' = [cpc EXCEPT ![pid] = "gwok"]
    /\ resp' = NoResp
    /\ UNCHANGED <<users, payoutRuns, split, configured, creatorHasUpi, file, payments, nextId, hs, delivered>>

\* how createCashfreeOrder throws: the API answers an error whose body carries a
\* message, it answers an error without one (a bare 5xx), no answer arrives, or the
\* credentials fail
GatewayFailures == {"rejected", "rejected_bare", "unreachable", "auth"}

\* the 500 of the catch block: error is cashfreeError.response?.data?.message
\* || 'Payment gateway error', and the authError of the adapter has no response
OrderFailureResponse(cause) ==
    [code |-> 500,
     error |-> IF cause = "rejected" THEN "gateway message" ELSE "Payment gateway error"]

\* variant of RollbackPayment: no delete when the credentials failed
RollbackUnlessAuth(pays, pid, cause) ==
    IF cause = "auth" THEN pays ELSE [pays EXCEPT ![pid] = NoPayment]

\* Payment.findByIdAndDelete(payment._id) of the catch block
RollbackPayment(pays, pid, cause) == [pays EXCEPT ![pid] = NoPayment]

\* createCashfreeOrder throws: the API rejects the order, the gateway cannot be
\* reached, or the credentials fail (rethrown as authError); the catch block
gatewayFails(pid, cause) ==
    /\ cpc[pid] = "saved"
    /\ payments' = RollbackPayment(payments, pid, cause)
    /\ cpc' = [cpc EXCEPT ![pid] = "failed"]
    /\ resp' = [NoResp EXCEPT !.op = "createOrder", !.pid = pid, !.note = cause,
                              !.code = OrderFailureResponse(cause).code,
                              !.error = OrderFailureResponse(cause).error]
    /\ UNCHANGED <<users, payoutRuns, split, configured, creatorHasUpi, file, nextId, hs, delivered>>

\* response.order_id, which the 201 returns to the client as orderId: the order_id of
\* the request, echoed by the gateway
ReturnedOrderId(pid) == OrderToken(pid)

\* payment.cashfreeOrderId = response.cf_order_id; payment.save(); 201.  The save is
\* inside the try of the gateway call: when it rejects (saveOk is FALSE), and when the
\* document was deleted meanwhile, it throws into the same catch block as a gateway
\* failure
createOrderResponds(pid, saveOk) ==
    /\ cpc[pid] = "gwok"
    /\ IF payments[pid].present /\ saveOk
       THEN /\ payments' = [payments EXCEPT ![pid].cashfreeOrderId = CfToken(pid)]
            /\ cpc' = [cpc EXCEPT ![pid] = "done"]
            /\ resp' = [NoResp EXCEPT !.op = "createOrder", !.code = 201, !.pid = pid,
                                      !.token = ReturnedOrderId(pid)]
       ELSE /\ payments' = RollbackPayment(payments, pid, "save")
            /\ cpc' = [cpc EXCEPT ![pid] = "savefailed"]
            /\ resp' = [NoResp EXCEPT !.op = "createOrder", !.pid = pid, !.note = "save",
                                      !.code = OrderFailureResponse("save").code,
                                      !.error = OrderFailureResponse("save").error]
    /\ UNCHANGED <<users, payoutRuns, split, configured, creatorHasUpi, file, nextId, hs, delivered>>

\* ------------------------------------------------------------ getDownloadUrl
\* variant of DownloadVerdict: a completed payment is looked for before visibility
DownloadVerdictPaidFirst(f, pays, user) ==
    IF user = Creator THEN 200
    ELSE IF f.price > 0 /\ HasCompletedPayment(pays, user) THEN 200
    ELSE IF f.isPublic /\ f.price > 0 THEN 402
    ELSE IF ~f.isPublic THEN 403
    ELSE 200

\* variant of DownloadVerdict: the creator is checked like every other requester
DownloadVerdictNoOwner(f, pays, user) ==
    IF f.isPublic /\ f.price > 0 /\ ~HasCompletedPayment(pays, user) THEN 402
    ELSE IF ~f.isPublic THEN 403
    ELSE 200

\* the status code getDownloadUrl answers user with
DownloadVerdict(f, pays, user) ==
    IF user = Creator THEN 200
    ELSE IF f.isPublic /\ f.price > 0 /\ ~HasCompletedPayment(pays, user) THEN 402
    ELSE IF ~f.isPublic THEN 403
    ELSE 200

getDownloadUrl(user) ==
    /\ user \in users
    /\ resp' = [NoResp EXCEPT !.op = "download", !.user = user,
                              !.code = DownloadVerdict(file, payments, user),
                              !.price = IF DownloadVerdict(file, payments, user) = 402
                                        THEN file.price ELSE 0]
    /\ UNCHANGED <<users, payoutRuns, split, configured, creatorHasUpi, file, payments, nextId, cpc, hs, delivered>>

\* ------------------------------------------------------------ paymentWebhook
\* document.save() of a loaded document: the assigned paths whose value differs from
\* the local copy are written to the stored document
SaveModified(stored, local, assigned) ==
    [f \in DOMAIN stored |->
        IF f \in DOMAIN assigned /\ (f \notin DOMAIN local \/ assigned[f] /= local[f])
        THEN assigned[f] ELSE stored[f]]

\* the local copy after the assignments
Assign(local, assigned) ==
    [f \in DOMAIN local |-> IF f \in DOMAIN assigned THEN assigned[f] ELSE local[f]]

\* the local copy a findOne returns
LoadDoc(stored) ==
    [status |-> stored.status, payoutStatus |-> stored.payoutStatus]

\* paymentData.payment_method?.toLowerCase() || 'upi' yields a value of the schema's enum
MethodAccepted(m) == m \in {"absent", "CARD"}

\* what handlePaymentSuccess assigns before its save
SuccessAssignment ==
    [status |-> "completed", cashfreePaymentId |-> GatewayPaymentId, paidAt |-> TRUE]

\* what handlePaymentFailure and handlePaymentDropped assign before their save
FailureAssignment == [status |-> "failed", payoutStatus |-> "not_required"]

\* res.json({ success: true }) with what the delivery logged: its outcome, and on
\* arrival the order token of the event
WebhookResp(note, token) ==
    [NoResp EXCEPT !.op = "webhook", !.code = 200, !.note = note, !.token = token]

\* the handler paymentWebhook dispatches an event of a type to
EventKind(type) ==
    IF type = "PAYMENT_SUCCESS_WEBHOOK" THEN "success"
    ELSE IF type = "OTHER" THEN "other"
    ELSE "failure"

\* who can send an event with a token: the gateway sends events for the orders it
\* holds, anyone else sends what they like
SendersOf(token) ==
    IF \E p \in gwOrders : token = CfToken(p) THEN Origins ELSE {"other"}

\* the first free handler: deliveries are interchangeable
FreeHandler(h) == hs[h].pc = "idle" /\ \A g \in Handlers : g < h => hs[g].pc /= "idle"

\* a delivery up to the handler's Payment.findOne.  An event of another type is
\* answered at once, and so is one whose order token matches no payment (logged); a
\* success event whose payment method throws or fails validation writes nothing
paymentWebhook(h, type, token, method, origin) ==
    /\ FreeHandler(h)
    /\ IF type = "OTHER"
       THEN /\ resp' = [WebhookResp("ignored", token) EXCEPT
                           !.event = EventKind(type), !.origin = origin]
            /\ UNCHANGED <<hs, delivered>>
       ELSE IF FindByOrderId(payments, token) = 0
       THEN /\ resp' = [WebhookResp("not_found", token) EXCEPT
                           !.event = EventKind(type), !.origin = origin]
            /\ UNCHANGED <<hs, delivered>>
       ELSE IF type = "PAYMENT_SUCCESS_WEBHOOK" /\ ~MethodAccepted(method)
       THEN /\ resp' = [WebhookResp("error", token) EXCEPT
                           !.event = EventKind(type), !.origin = origin]
            /\ UNCHANGED <<hs, delivered>>
       ELSE /\ delivered < MaxDeliveries
            /\ delivered' = delivered + 1
            /\ hs' = [hs EXCEPT ![h] =
                        [pc |-> "found",
                         type |-> EventKind(type),
                         pid |-> FindByOrderId(payments, token),
                         doc |-> LoadDoc(payments[FindByOrderId(payments, token)])]]
            /\ resp' = [NoResp EXCEPT !.op = "webhook", !.note = "found", !.token = token,
                                      !.event = EventKind(type), !.origin = origin]
    /\ UNCHANGED <<users, payoutRuns, split, configured, creatorHasUpi, file, payments, nextId, cpc>>

\* handlePaymentSuccess from the assignments to payment.save(); the save of a document
\* deleted meanwhile throws and ends in the catch
handlePaymentSuccess(h) ==
    /\ hs[h].pc = "found"
    /\ hs[h].type = "success"
    /\ LET pid == hs[h].pid
       IN IF ~payments[pid].present
          THEN /\ hs' = [hs EXCEPT ![h] = IdleHandler]
               /\ resp' = WebhookResp("error", NoToken)
               /\ UNCHANGED payments
          ELSE /\ payments' = [payments EXCEPT ![pid] =
                                 SaveModified(payments[pid], hs[h].doc, SuccessAssignment)]
               /\ hs' = [hs EXCEPT ![h].pc = "saved", ![h].doc = Assign(hs[h].doc, SuccessAssignment)]
               /\ resp' = NoResp
    /\ UNCHANGED <<users, payoutRuns, split, configured, creatorHasUpi, file, nextId, cpc, delivered>>

\* handlePaymentFailure, handlePaymentDropped: the assignments and payment.save()
handlePaymentFailure(h) ==
    /\ hs[h].pc = "found"
    /\ hs[h].type = "failure"
    /\ LET pid == hs[h].pid
       IN IF payments[pid].present
          THEN /\ payments' = [payments EXCEPT ![pid] =
                                 SaveModified(payments[pid], hs[h].doc, FailureAssignment)]
               /\ resp' = WebhookResp("done", NoToken)
          ELSE /\ UNCHANGED payments
               /\ resp' = WebhookResp("error", NoToken)
    /\ hs' = [hs EXCEPT ![h] = IdleHandler]
    /\ UNCHANGED <<users, payoutRuns, split, configured, creatorHasUpi, file, nextId, cpc, delivered>>

\* variant of PayoutFirstStatus: no check of the creator's payout destination
PayoutFirstStatusNoDestinationCheck ==
    IF ~configured THEN "not_required" ELSE "processing"

\* the payoutStatus processCreatorPayout saves first
PayoutFirstStatus ==
    IF ~configured THEN "not_required"
    ELSE IF ~creatorHasUpi THEN "failed"
    ELSE "processing"

\* variant of PayoutFailureAssignment: a failed payout takes the settlement back
PayoutFailureRevertsStatus == [status |-> "pending", payoutStatus |-> "failed"]

\* what a failed payout assigns before its save: payoutStatus (and payoutFailureReason),
\* in the branches for a missing creator or destination and in the catch block
PayoutFailureAssignment == [payoutStatus |-> "failed"]

\* File.findByIdAndUpdate(status: 'delivered'), then processCreatorPayout up to its
\* first save
processCreatorPayout(h) ==
    /\ hs[h].pc = "saved"
    /\ LET pid == hs[h].pid
           asg == IF PayoutFirstStatus = "failed" THEN PayoutFailureAssignment
                  ELSE [payoutStatus |-> PayoutFirstStatus]
       IN /\ file' = [file EXCEPT !.status = "delivered"]
          /\ payoutRuns' = [payoutRuns EXCEPT ![pid] = @ + 1]
          /\ IF payments[pid].present
             THEN payments' = [payments EXCEPT ![pid] = SaveModified(payments[pid], hs[h].doc, asg)]
             ELSE UNCHANGED payments
          /\ IF payments[pid].present /\ PayoutFirstStatus = "processing"
             THEN /\ hs' = [hs EXCEPT ![h].pc = "payout", ![h].doc = Assign(hs[h].doc, asg)]
                  /\ resp' = NoResp
             ELSE /\ hs' = [hs EXCEPT ![h] = IdleHandler]
                  /\ resp' = WebhookResp(IF payments[pid].present THEN "done" ELSE "error", NoToken)
    /\ UNCHANGED <<users, split, configured, creatorHasUpi, nextId, cpc, delivered>>

\* processCreatorPayout after the (simulated) transfer: payoutStatus completed, save
payoutCompletes(h) ==
    /\ hs[h].pc = "payout"
    /\ LET pid == hs[h].pid
       IN IF payments[pid].present
          THEN /\ payments' = [payments EXCEPT ![pid] =
                                 SaveModified(payments[pid], hs[h].doc, [payoutStatus |-> "completed"])]
               /\ resp' = WebhookResp("done", NoToken)
          ELSE /\ UNCHANGED payments
               /\ resp' = WebhookResp("error", NoToken)
    /\ hs' = [hs EXCEPT ![h] = IdleHandler]
    /\ UNCHANGED <<users, payoutRuns, split, configured, creatorHasUpi, file, nextId, cpc, delivered>>

\* processCreatorPayout throws after payoutStatus processing was saved (the save of
\* the completed payout rejects): the catch block assigns failed and saves
payoutThrows(h) ==
    /\ hs[h].pc = "payout"
    /\ LET pid == hs[h].pid
       IN IF payments[pid].present
          THEN /\ payments' = [payments EXCEPT ![pid] =
                                 SaveModified(payments[pid], hs[h].doc, PayoutFailureAssignment)]
               /\ resp' = WebhookResp("done", NoToken)
          ELSE /\ UNCHANGED payments
               /\ resp' = WebhookResp("error", NoToken)
    /\ hs' = [hs EXCEPT ![h] = IdleHandler]
    /\ UNCHANGED <<users, payoutRuns, split, configured, creatorHasUpi, file, nextId, cpc, delivered>>

\* ------------------------------------------------------- verifyPaymentStatus
\* variant of VerifyWrites: polling settles a pending payment it finds
VerifySettlesPending(pays, pid) ==
    IF pid /= 0 /\ pays[pid].status = "pending"
    THEN [pays EXCEPT ![pid].status = "completed"]
    ELSE pays

\* what verifyPaymentStatus writes to the collection: nothing
VerifyWrites(pays, pid) == pays

\* the order ids a client polls with: the orderId and the cashfreeOrderId of a 201
PollTokens == {OrderToken(p) : p \in PIds} \cup {CfToken(p) : p \in PIds}

\* GET /payments/verify/:orderId
verifyPaymentStatus(user, token) ==
    /\ user \in users
    /\ LET pid == FindByOrderId(payments, token)
       IN /\ resp' = [NoResp EXCEPT !.op = "verify", !.user = user, !.token = token,
                                    !.pid = IF pid /= 0 /\ payments[pid].clientId = user
                                            THEN pid ELSE 0,
                                    !.code = IF pid = 0 THEN 404
                                             ELSE IF payments[pid].clientId /= user THEN 403
                                             ELSE 200,
                                    !.note = IF pid /= 0 /\ payments[pid].clientId = user
                                             THEN payments[pid].status ELSE ""]
          /\ payments' = VerifyWrites(payments, pid)
    /\ UNCHANGED <<users, payoutRuns, split, configured, creatorHasUpi, file, nextId, cpc, hs, delivered>>

\* ------------------------------------------------------------------- refund
\* payment.refund(): status = 'refunded', save.  No handler of the repository calls
\* it; it is taken as called from outside, on a completed payment
refund(pid) ==
    /\ payments[pid].present
    /\ payments[pid].status = "completed"
    /\ payments' = [payments EXCEPT ![pid].status = "refunded"]
    /\ resp' = [NoResp EXCEPT !.op = "refund", !.pid = pid]
    /\ UNCHANGED <<users, payoutRuns, split, configured, creatorHasUpi, file, nextId, cpc, hs, delivered>>

\* ------------------------------------------------------------ deleteAccount
\* the pre('deleteOne') hook of the user document: Payment.deleteMany({ $or:
\* [{ creatorId }, { clientId }] })
DeleteUserPayments(pays, user) ==
    [p \in PIds |-> IF pays[p].present /\ (pays[p].clientId = user \/ user = Creator)
                    THEN NoPayment ELSE pays[p]]

\* DELETE of the requester's own account, by a client (the creator's deletion takes the
\* file with it and ends the workflow)
deleteAccount(user, passwordValid) ==
    /\ user \in users
    /\ IF passwordValid
       THEN /\ users' = users \ {user}
            /\ payments' = DeleteUserPayments(payments, user)
            /\ resp' = [NoResp EXCEPT !.op = "deleteAccount", !.user = user, !.code = 200]
       ELSE /\ resp' = [NoResp EXCEPT !.op = "deleteAccount", !.user = user, !.code = 400]
            /\ UNCHANGED <<users, payments>>
    /\ UNCHANGED <<payoutRuns, split, configured, creatorHasUpi, file, nextId, cpc, hs, delivered>>

\* ------------------------------------------------------ body parsing
\* what a request whose body is not parsable JSON is answered: express.json() passes
\* the parse error to the error handler, paymentWebhook does not run
ParseErrorCodes == {400, 500}

webhookUnparsable(code) ==
    /\ resp' = [NoResp EXCEPT !.op = "webhook", !.code = code, !.note = "unparsable"]
    /\ UNCHANGED <<users, payoutRuns, split, configured, creatorHasUpi, file, payments, nextId, cpc, hs, delivered>>

Next ==
    \/ \E pr \in Prices, pub \in BOOLEAN : updateFile(pr, pub)
    \/ \E u \in Users : createPaymentOrder(u)
    \/ \E p \in PIds : gatewayAccepts(p)
    \/ \E p \in PIds, c \in GatewayFailures : gatewayFails(p, c)
    \/ \E p \in PIds, ok \in BOOLEAN : createOrderResponds(p, ok)
    \/ \E u \in Users : getDownloadUrl(u)
    \/ \E h \in Handlers, t \in EventTypes :
          \E k \in IF t = "OTHER" THEN {UnknownToken} ELSE Tokens :
             \E m \in IF t = "PAYMENT_SUCCESS_WEBHOOK" THEN PayloadMethods ELSE {"absent"} :
                \E o \in SendersOf(k) : paymentWebhook(h, t, k, m, o)
    \/ \E h \in Handlers : handlePaymentSuccess(h)
    \/ \E h \in Handlers : handlePaymentFailure(h)
    \/ \E h \in Handlers : processCreatorPayout(h)
    \/ \E h \in Handlers : payoutCompletes(h)
    \/ \E h \in Handlers : payoutThrows(h)
    \/ \E u \in Clients, k \in PollTokens : verifyPaymentStatus(u, k)
    \/ \E p \in PIds : refund(p)
    \/ \E u \in Clients, ok \in BOOLEAN : deleteAccount(u, ok)
    \/ \E c \in ParseErrorCodes : webhookUnparsable(c)

Spec == Init /\ [][Next]_vars

\* the commission split of createPaymentOrder (lines 71-74) on its own
computeSplit(amount, ratePct) ==
    /\ split' = [amount |-> amount, ratePct |-> ratePct,
                 platformCommission |-> PlatformCommission(amount, ratePct),
                 creatorShare |-> CreatorShare(amount, PlatformCommission(amount, ratePct)),
                 done |-> TRUE]
    /\ UNCHANGED <<users, configured, creatorHasUpi, file, payments, nextId, cpc, hs,
                   delivered, payoutRuns, resp>>

SplitNext == \E a \in SplitAmounts, r \in SplitRates : computeSplit(a, r)

SplitSpec == Init /\ [][SplitNext]_vars

\* the workflow while the gateway emits no event (no customer pays): every request to
\* the webhook endpoint comes from another sender
ForgedNext ==
    \/ \E pr \in Prices, pub \in BOOLEAN : updateFile(pr, pub)
    \/ \E u \in Users : createPaymentOrder(u)
    \/ \E p \in PIds : gatewayAccepts(p)
    \/ \E p \in PIds : createOrderResponds(p, TRUE)
    \/ \E u \in Users : getDownloadUrl(u)
    \/ \E h \in Handlers, t \in EventTypes, k \in Tokens :
          \E m \in IF t = "PAYMENT_SUCCESS_WEBHOOK" THEN PayloadMethods ELSE {"absent"} :
             paymentWebhook(h, t, k, m, "other")
    \/ \E h \in Handlers : handlePaymentSuccess(h)
    \/ \E h \in Handlers : handlePaymentFailure(h)
    \/ \E h \in Handlers : processCreatorPayout(h)
    \/ \E h \in Handlers : payoutCompletes(h)

ForgedSpec == Init /\ [][ForgedNext]_vars

\* ------------------------------------------------------------------ claims

\* C1: a webhook event delivered for a payment whose status is already completed,
\* failed or refunded does not change the status
C1_TerminalStatusKept ==
    [][\A h \in Handlers :
          (hs[h].pc = "found" /\ hs'[h].pc /= "found" /\ hs[h].doc.status \in Terminal)
             => payments'[hs[h].pid].status = payments[hs[h].pid].status]_vars

\* C2: however often the success event of an order is delivered, processCreatorPayout
\* runs at most once for the payment
C2_PayoutRunsOnce == \A p \in PIds : payoutRuns[p] <= 1

\* C3: of two deliveries that both read the payment as pending, the one that saves
\* second finds the status terminal and writes nothing
C3_LoserWritesNothing ==
    [][\A h \in Handlers :
          (/\ hs[h].pc = "found" /\ hs'[h].pc /= "found"
           /\ hs[h].doc.status = "pending"
           /\ payments[hs[h].pid].status \in Terminal)
             => payments' = payments]_vars

\* C4: the two shares of a split computed for a rate in [0,1] sum to the amount exactly
C4_SharesSumToAmount ==
    (split.done /\ split.ratePct \in 0..100)
       => split.platformCommission + split.creatorShare = split.amount

\* amount * rate rounded to two decimals (halves up), in Milli
RefPlatformShare(amount, ratePct) == ((amount * ratePct + 500) \div 1000) * 10

\* C5: for a rate in [0,1], platformCommission is amount * rate rounded to two decimals, creatorShare is
\* amount - platformCommission with no further rounding; Rs 500 at 10% gives 50 and 450
C5_ReferenceSplit ==
    (split.done /\ split.ratePct \in 0..100) =>
        /\ split.platformCommission = RefPlatformShare(split.amount, split.ratePct)
        /\ split.creatorShare = split.amount - split.platformCommission
        /\ (split.amount = 500 * Milli /\ split.ratePct = 10
              => split.platformCommission = 50 * Milli /\ split.creatorShare = 450 * Milli)

\* C6: a download request by the file's creator is answered 200, whatever the file's
\* visibility and price and whatever payments are stored
C6_CreatorAlwaysAuthorized ==
    (resp.op = "download" /\ resp.user = Creator) => resp.code = 200

C6_Witness ==
    /\ resp.op = "download" /\ resp.user = Creator /\ resp.code = 200
    /\ ~file.isPublic /\ file.price > 0
    /\ \E p \in PIds : payments[p].present /\ payments[p].status = "failed"

\* C7: a download request for a public file with price > 0 by a non-creator with no
\* completed payment is answered 402 with the file's price
C7_PaymentRequired ==
    (/\ resp.op = "download" /\ resp.user /= Creator
     /\ file.isPublic /\ file.price > 0
     /\ ~\E p \in PIds : /\ payments[p].present /\ payments[p].clientId = resp.user
                         /\ payments[p].status = "completed")
       => (resp.code = 402 /\ resp.price = file.price)

C7_Witness ==
    /\ resp.op = "download" /\ resp.user \in Clients /\ resp.code = 402
    /\ resp.price = 500 * Milli
    /\ \E p \in PIds : /\ payments[p].present /\ payments[p].clientId = resp.user
                       /\ payments[p].status = "pending"
    /\ \E p \in PIds : /\ payments[p].present /\ payments[p].clientId = resp.user
                       /\ payments[p].status = "failed" /\ payments[p].paidAt

\* C8: in every state in which a requester's payment for the public, priced file is
\* completed, from the save that completes it on, a download request by the requester
\* is answered 200
C8_AuthorizedOnceCompleted ==
    (/\ resp.op = "download" /\ resp.user /= Creator
     /\ file.isPublic /\ file.price > 0
     /\ \E p \in PIds : /\ payments[p].present /\ payments[p].clientId = resp.user
                        /\ payments[p].status = "completed")
       => resp.code = 200

\* the request comes right after the save of handlePaymentSuccess: the handler has
\* neither marked the file delivered nor started the payout
C8_Witness ==
    /\ resp.op = "download" /\ resp.user \in Clients /\ resp.code = 200
    /\ file.isPublic /\ file.price > 0 /\ file.status = "ready"
    /\ \E h \in Handlers :
          /\ hs[h].pc = "saved"
          /\ payments[hs[h].pid].clientId = resp.user
          /\ payments[hs[h].pid].status = "completed"
          /\ payments[hs[h].pid].payoutStatus = "pending"
          /\ \A q \in PIds \ {hs[h].pid} : payments[q].status /= "completed"

\* C9: once createPaymentOrder has answered a failed gateway call, the payment it
\* created is not in the collection, whatever the failure
C9_RolledBack == \A p \in PIds : cpc[p] = "failed" => ~payments[p].present

C9_Witness ==
    /\ resp.op = "createOrder" /\ resp.code = 500 /\ resp.note = "auth"
    /\ cpc[resp.pid] = "failed" /\ ~payments[resp.pid].present
    /\ \E q \in PIds \ {resp.pid} : cpc[q] = "failed" /\ ~payments[q].present

\* C10: the arrival of an event, of any type, whose order token no stored payment
\* carries is answered 200 and changes no payment (status, payout status or any other
\* field), no file and no handler
C10_UnknownTokenNoOp ==
    [][\A k \in Tokens :
          (/\ resp'.op = "webhook" /\ resp'.token = k
           /\ \A p \in PIds : ~(payments[p].present /\ payments[p].cashfreeOrderId = k))
             => (/\ payments' = payments /\ file' = file /\ hs' = hs
                 /\ payoutRuns' = payoutRuns
                 /\ resp'.code = 200)]_vars

C10_Witness ==
    /\ resp.op = "webhook" /\ resp.code = 200 /\ resp.note = "not_found"
    /\ resp.token = CfToken(1)
    /\ \E p \in PIds : payments[p].present /\ payments[p].status = "pending"
    /\ \A h \in Handlers : hs[h].pc = "idle"
\* C11: every answer of the webhook endpoint is a 200, whatever the request
C11_AlwaysAcknowledged ==
    (resp.op = "webhook" /\ resp.code /= 0) => resp.code = 200

\* C12: a download request for the public, priced file by a non-creator whose latest
\* payment has been refunded is answered 402
C12_RefundRevokes ==
    (/\ resp.op = "download" /\ resp.user /= Creator
     /\ file.isPublic /\ file.price > 0
     /\ MostRecentPayment(payments, resp.user) /= 0
     /\ payments[MostRecentPayment(payments, resp.user)].status = "refunded")
       => resp.code = 402

\* C13: a status poll or a download request, whatever it is answered, changes no field
\* of any payment
C13_ReadsDoNotWrite ==
    [][resp'.op \in {"verify", "download"}
          => (payments' = payments /\ payoutRuns' = payoutRuns)]_vars

C13_Witness ==
    /\ resp.op = "verify" /\ resp.code = 200 /\ resp.note = "pending"
    /\ payments[resp.pid].present /\ payments[resp.pid].status = "pending"
    /\ \E h \in Handlers : hs[h].pc = "found" /\ hs[h].pid = resp.pid

\* C14: no stored payment has the file's creator as its client, and an order creation
\* requested by the creator is rejected
C14_NoSelfPurchase ==
    /\ \A p \in PIds : payments[p].present => payments[p].clientId /= Creator
    /\ (resp.op = "createOrder" /\ resp.user = Creator) => resp.code \in {400, 503}

C14_Witness ==
    /\ resp.op = "createOrder" /\ resp.user = Creator /\ resp.code = 400
    /\ configured /\ file.isPublic /\ file.price > 0
    /\ \E p \in PIds : payments[p].present /\ payments[p].clientId \in Clients

\* C15: a status poll by the client of a created order with the orderId its 201
\* returned is answered 200 with that order's payment
C15_ReturnedOrderIdResolves ==
    \A p \in PIds :
       (/\ resp.op = "verify" /\ resp.token = ReturnedOrderId(p)
        /\ cpc[p] = "done" /\ payments[p].present
        /\ resp.user = payments[p].clientId)
          => (resp.code = 200 /\ resp.pid = p)

\* C16: a download request for the public, priced file by a non-creator is answered
\* 200 exactly when the requester's latest payment is completed, and 402 otherwise
C16_LatestPaymentDecides ==
    (/\ resp.op = "download" /\ resp.user /= Creator
     /\ file.isPublic /\ file.price > 0)
       => /\ resp.code \in {200, 402}
          /\ resp.code = 200 <=>
                /\ MostRecentPayment(payments, resp.user) /= 0
                /\ payments[MostRecentPayment(payments, resp.user)].status = "completed"

\* C17: a download request for a file that is not public by a non-creator is answered
\* 403, whatever the price and the requester's payments
C17_PrivateForbidden ==
    (resp.op = "download" /\ resp.user /= Creator /\ ~file.isPublic) => resp.code = 403

C17_Witness ==
    /\ resp.op = "download" /\ resp.user \in Clients /\ resp.code = 403
    /\ ~file.isPublic /\ file.price > 0
    /\ \E p \in PIds : /\ payments[p].present /\ payments[p].clientId = resp.user
                       /\ payments[p].status = "completed"

\* C18: no step removes a stored payment whose status is completed, failed or refunded
C18_TerminalKept ==
    [][\A p \in PIds :
          (payments[p].present /\ payments[p].status \in Terminal)
             => payments'[p].present]_vars

\* C19: stored payments carry pairwise different order tokens, and no step changes the
\* order token of a stored payment
C19_TokenUniqueImmutable ==
    [][/\ \A p, q \in PIds :
             (p /= q /\ payments'[p].present /\ payments'[q].present)
                => payments'[p].cashfreeOrderId /= payments'[q].cashfreeOrderId
       /\ \A p \in PIds :
             (payments[p].present /\ payments'[p].present)
                => payments'[p].cashfreeOrderId = payments[p].cashfreeOrderId]_vars

\* C20: the answer to an order creation that failed on the credentials differs from
\* the answer when the gateway is not configured and from every answer to an order the
\* gateway API rejected
C20_AuthMismatchDistinct ==
    (resp.op = "createOrder" /\ resp.note = "auth")
       => /\ resp.code /= 503
          /\ \A c \in {"rejected", "rejected_bare"} :
                <<resp.code, resp.error>>
                   /= <<OrderFailureResponse(c).code, OrderFailureResponse(c).error>>

\* C21: a split is produced only for an amount >= 0 and a rate in [0,1], and both
\* shares of every split produced (the values the payment is stored with) are >= 0
C21_SplitRejectsBadInputs ==
    split.done =>
        /\ split.amount >= 0 /\ split.ratePct \in 0..100
        /\ split.platformCommission >= 0 /\ split.creatorShare >= 0

\* C22: once a success event whose order token a stored payment carries has been
\* answered, that payment is not pending: it is completed with the gateway's payment
\* id and paidAt, whatever payment_method the event carried
C22_SuccessEventCompletes ==
    \A p \in PIds :
       (/\ resp.op = "webhook" /\ resp.code = 200 /\ resp.event = "success"
        /\ payments[p].present /\ payments[p].cashfreeOrderId = resp.token)
          => /\ payments[p].status /= "pending"
             /\ payments[p].status = "completed"
                   => (payments[p].cashfreePaymentId /= NoPaymentId /\ payments[p].paidAt)

C25_AbsentTokenNotLookedUp ==
    (resp.op = "webhook" /\ resp.token = AbsentToken)
       => resp.note \notin {"not_found", "found"}

\* C26: while the gateway emits no event, no payment is completed and no download of
\* the public, priced file is granted to a client
C26_NoSettlementWithoutGateway ==
    /\ \A p \in PIds : payments[p].present => payments[p].status /= "completed"
    /\ (/\ resp.op = "download" /\ resp.user \in Clients
        /\ file.isPublic /\ file.price > 0) => resp.code /= 200

\* C27: a success event the gateway sends for an order it holds, at any moment after
\* the gateway call returned, finds the order's stored payment
C27_AcceptedOrderEventFound ==
    \A p \in PIds :
       (/\ resp.op = "webhook" /\ resp.origin = "gateway" /\ resp.event = "success"
        /\ resp.token = CfToken(p)
        /\ cpc[p] \in {"gwok", "done"} /\ payments[p].present)
          => resp.note /= "not_found"

\* C28: a payment whose payoutStatus is processing or completed has status completed
\* (or refunded, once refund() ran), and a payment whose status is failed has
\* payoutStatus not_required
C28_StatusPayoutCoherent ==
    \A p \in PIds :
       payments[p].present =>
          /\ payments[p].payoutStatus \in {"processing", "completed"}
                => payments[p].status \in {"completed", "refunded"}
          /\ payments[p].status = "failed" => payments[p].payoutStatus = "not_required"

\* C29: the step that ends createPaymentOrder for an order the gateway accepted does
\* not delete the order's payment: it leaves it stored with the gateway's order token
C29_NoRollbackAfterAccept ==
    [][\A p \in PIds :
          (cpc[p] = "gwok" /\ cpc'[p] /= "gwok" /\ payments[p].present)
             => (payments'[p].present /\ payments'[p].cashfreeOrderId = CfToken(p))]_vars

\* C30: a client has at most one payment for the file that is pending or completed
C30_OneLivePaymentPerClient ==
    \A u \in Clients :
       Cardinality({p \in PIds : /\ payments[p].present /\ payments[p].clientId = u
                                 /\ payments[p].status \in {"pending", "completed"}}) <= 1
====
